---- MODULE Spec2Model ----
(***************************************************************************)
(* Model of the Logeion MCP server (logeion.py): the three tools get_word, *)
(* get_server_info and explore_database, run one call at a time against a  *)
(* read-only SQLite store and an optional spaCy lemmatizer loaded once.     *)
(***************************************************************************)
EXTENDS Integers, Sequences, FiniteSets, TLC

\* ---------------------------------------------------------------- bounds
MaxRows == 2          \* rows of the Entries table
MaxLimit == 2         \* largest limit passed to explore_database

\* ------------------------------------------------------- value universes
Inputs == {"amare", "amo"}            \* words passed to get_word
Heads == {"amare", "amo", ""}         \* values of the head column
Lemmas == {"amare", ""}               \* lemma_ values the model can produce
TableNames == {"Entries", "InvalidTable"}
Limits == -1 .. MaxLimit
DbStatuses == {"ok", "unopenable"}

\* Optional[T]: None is the empty tuple, a present value a 1-tuple.
None == << >>
Some(x) == <<x>>

\* Rows of Entries: id is the rowid, head the lookup column.
Row(i, h) == [id |-> i, head |-> h]
RECURSIVE SeqsUpTo(_, _)
SeqsUpTo(S, n) ==
  IF n = 0 THEN {<< >>}
  ELSE LET shorter == SeqsUpTo(S, n - 1)
       IN shorter \cup {Append(s, x) : s \in {t \in shorter : Len(t) = n - 1}, x \in S}
Tables == {[i \in 1 .. Len(hs) |-> Row(i, hs[i])] : hs \in SeqsUpTo(Heads, MaxRows)}

\* What nlp(word) does for one word: raise, or a doc (the lemma_ of each token).
DocOutcomes ==
  {[raises |-> TRUE, tokens |-> << >>]}
    \cup {[raises |-> FALSE, tokens |-> t] : t \in {<< >>} \cup {<<l>> : l \in Lemmas}}
NoDocs == [w \in Inputs |-> [raises |-> FALSE, tokens |-> << >>]]

VARIABLES
  dbStatus,   \* whether DATABASE_PATH can be opened by sqlite3.connect
  schema,     \* names of the tables the store holds
  table,      \* rows of Entries, in rowid order
  nlp,        \* the module-level nlp: [loaded, docs]
  last,       \* the latest tool call: its arguments, the store status it saw, its response
  first       \* the first get_word call of the run, kept for comparison

vars == <<dbStatus, schema, table, nlp, last, first>>

\* ------------------------------------------------------------- messages
ConnectErrorMsg == "unable to open database file"
NoSuchTableMsg(name) == "no such table: " \o name
NlpErrorMsg == "model failure"
NoneCallableMsg == "'NoneType' object is not callable"
NotFoundMsg(word) == "No results found for '" \o word \o "' or its lemma"

\* ------------------------------------------------------ storage accessor
Op(name, arg) == [op |-> name, arg |-> arg]

\* sqlite3.connect(DATABASE_PATH)
ConnectOk == dbStatus = "ok"

ExecuteAllRows(key) ==
  IF "Entries" \notin schema
    THEN [raised |-> TRUE, msg |-> NoSuchTableMsg("Entries"), rows |-> << >>]
    ELSE [raised |-> FALSE, msg |-> "", rows |-> table]

\* cursor.execute("SELECT * FROM Entries WHERE head = ?", (key,)); cursor.fetchall()
Execute(key) ==
  IF "Entries" \notin schema
    THEN [raised |-> TRUE, msg |-> NoSuchTableMsg("Entries"), rows |-> << >>]
    ELSE [raised |-> FALSE, msg |-> "",
          rows |-> SelectSeq(table, LAMBDA r : r.head = key)]

\* -------------------------------------------------------- lemma resolver
ResolverAlwaysTried == TRUE

\* nlp is not None
ResolverAvailable == nlp.loaded

\* A resolver that swallows the model's failure and yields no token.
LemmatizeAbsorbing(word) ==
  IF ~nlp.loaded
    THEN [raised |-> TRUE, msg |-> NoneCallableMsg, tokens |-> << >>]
    ELSE IF nlp.docs[word].raises
      THEN [raised |-> FALSE, msg |-> "", tokens |-> << >>]
      ELSE [raised |-> FALSE, msg |-> "", tokens |-> nlp.docs[word].tokens]

\* doc = nlp(word)
Lemmatize(word) ==
  IF ~nlp.loaded
    THEN [raised |-> TRUE, msg |-> NoneCallableMsg, tokens |-> << >>]
    ELSE IF nlp.docs[word].raises
      THEN [raised |-> TRUE, msg |-> NlpErrorMsg, tokens |-> << >>]
      ELSE [raised |-> FALSE, msg |-> "", tokens |-> nlp.docs[word].tokens]

\* ------------------------------------------------------ WordSearchResult
ExactMatchResultWithLemma(word, rows) ==
  [success |-> TRUE, word |-> word, lemma |-> Some(word), results |-> Some(rows),
   method |-> "exact_match", error |-> None]

ExactMatchResult(word, rows) ==
  [success |-> TRUE, word |-> word, lemma |-> None, results |-> Some(rows),
   method |-> "exact_match", error |-> None]

LemmatizedResultLemmaAsWord(word, lemma, rows) ==
  [success |-> TRUE, word |-> lemma, lemma |-> Some(lemma), results |-> Some(rows),
   method |-> "lemmatized", error |-> None]

LemmatizedResult(word, lemma, rows) ==
  [success |-> TRUE, word |-> word, lemma |-> Some(lemma), results |-> Some(rows),
   method |-> "lemmatized", error |-> None]

NoneResultSuccess(word) ==
  [success |-> TRUE, word |-> word, lemma |-> None, results |-> None,
   method |-> "none", error |-> Some(NotFoundMsg(word))]

NoneResultNoError(word) ==
  [success |-> FALSE, word |-> word, lemma |-> None, results |-> None,
   method |-> "none", error |-> None]

NoneResult(word) ==
  [success |-> FALSE, word |-> word, lemma |-> None, results |-> None,
   method |-> "none", error |-> Some(NotFoundMsg(word))]

ErrorResult(word, msg) ==
  [success |-> FALSE, word |-> word, lemma |-> None, results |-> None,
   method |-> "error", error |-> Some(msg)]

\* The value a caller sees when an exception leaves the function instead.
Propagated(word) ==
  [success |-> FALSE, word |-> word, lemma |-> None, results |-> None,
   method |-> "raised", error |-> None]

\* --------------------------------------------------------------- get_word
Returned(r, ops) == [exc |-> None, kind |-> "", result |-> r, ops |-> ops]
\* An exception that leaves the try with no finally to close the connection.
RaisedUnclosed(kind, msg, word, ops) ==
  [exc |-> Some(msg), kind |-> kind, result |-> Propagated(word),
   ops |-> SelectSeq(ops, LAMBDA o : o.op # "close")]

Raised(kind, msg, word, ops) ==
  [exc |-> Some(msg), kind |-> kind, result |-> Propagated(word), ops |-> ops]

\* The fallback with a guard that skips the second query for an empty lemma.
LemmaFallbackSkipEmpty(word, ops) ==
  IF ResolverAvailable
    THEN LET doc == Lemmatize(word)
             ops2 == Append(ops, Op("nlp", word))
         IN IF doc.raised
              THEN Raised("model", doc.msg, word, Append(ops2, Op("close", "")))
              ELSE IF Len(doc.tokens) > 0 /\ doc.tokens[1] # ""
                THEN LET lemma == doc.tokens[1]
                         q2 == Execute(lemma)
                         ops3 == Append(ops2, Op("execute", lemma))
                     IN IF q2.raised
                          THEN Raised("storage", q2.msg, word, Append(ops3, Op("close", "")))
                          ELSE IF q2.rows # << >>
                            THEN Returned(LemmatizedResult(word, lemma, q2.rows),
                                          Append(ops3, Op("close", "")))
                            ELSE Returned(NoneResult(word), Append(ops3, Op("close", "")))
                ELSE Returned(NoneResult(word), Append(ops2, Op("close", "")))
    ELSE Returned(NoneResult(word), Append(ops, Op("close", "")))

\* The lemmatization fallback, entered after the exact query returned no row.
LemmaFallback(word, ops) ==
  IF ResolverAvailable
    THEN LET doc == Lemmatize(word)
             ops2 == Append(ops, Op("nlp", word))
         IN IF doc.raised
              THEN Raised("model", doc.msg, word, Append(ops2, Op("close", "")))
              ELSE IF Len(doc.tokens) > 0
                THEN LET lemma == doc.tokens[1]
                         q2 == Execute(lemma)
                         ops3 == Append(ops2, Op("execute", lemma))
                     IN IF q2.raised
                          THEN Raised("storage", q2.msg, word, Append(ops3, Op("close", "")))
                          ELSE IF q2.rows # << >>
                            THEN Returned(LemmatizedResult(word, lemma, q2.rows),
                                          Append(ops3, Op("close", "")))
                            ELSE Returned(NoneResult(word), Append(ops3, Op("close", "")))
                ELSE Returned(NoneResult(word), Append(ops2, Op("close", "")))
    ELSE Returned(NoneResult(word), Append(ops, Op("close", "")))

\* The same body with the lemma tried before the literal word.
GetWordBodyLemmaFirst(word) ==
  IF ~ConnectOk
    THEN Raised("storage", ConnectErrorMsg, word, <<Op("connect_failed", "")>>)
    ELSE LET fb == LemmaFallback(word, <<Op("connect", "")>>)
             q1 == Execute(word)
             ops1 == <<Op("connect", ""), Op("execute", word)>>
         IN IF fb.exc # None \/ fb.result.method = "lemmatized"
              THEN fb
              ELSE IF q1.raised
                THEN Raised("storage", q1.msg, word, Append(ops1, Op("close", "")))
                ELSE IF q1.rows # << >>
                  THEN Returned(ExactMatchResult(word, q1.rows),
                                Append(ops1, Op("close", "")))
                  ELSE Returned(NoneResult(word), Append(ops1, Op("close", "")))

\* The body of the outer try: connect, the inner try and its finally.
GetWordBody(word) ==
  IF ~ConnectOk
    THEN Raised("storage", ConnectErrorMsg, word, <<Op("connect_failed", "")>>)
    ELSE LET q1 == Execute(word)
             ops1 == <<Op("connect", ""), Op("execute", word)>>
         IN IF q1.raised
              THEN Raised("storage", q1.msg, word, Append(ops1, Op("close", "")))
              ELSE IF q1.rows # << >>
                THEN Returned(ExactMatchResult(word, q1.rows), Append(ops1, Op("close", "")))
                ELSE LemmaFallback(word, ops1)

\* An except clause that catches the storage errors only.
GetWordStorageErrorsOnly(word) ==
  LET b == GetWordBody(word)
  IN IF b.exc # None /\ b.kind = "storage"
       THEN [escaped |-> FALSE, result |-> ErrorResult(word, b.exc[1]), ops |-> b.ops]
       ELSE [escaped |-> b.exc # None, result |-> b.result, ops |-> b.ops]

\* A lookup that answers from the previous call when the word is the same.
GetWordCached(word) ==
  LET b == GetWordBody(word)
  IN IF last.kind = "get_word" /\ last.word = word
       THEN [escaped |-> FALSE, result |-> last.result, ops |-> << >>]
       ELSE IF b.exc # None
         THEN [escaped |-> FALSE, result |-> ErrorResult(word, b.exc[1]), ops |-> b.ops]
         ELSE [escaped |-> FALSE, result |-> b.result, ops |-> b.ops]

GetWord(word) ==
  LET b == GetWordBody(word)
  IN IF b.exc # None
       THEN [escaped |-> FALSE, result |-> ErrorResult(word, b.exc[1]), ops |-> b.ops]
       ELSE [escaped |-> FALSE, result |-> b.result, ops |-> b.ops]

\* -------------------------------------------------------- get_server_info
ServerInfo(db_status, spacy_status) ==
  [name |-> "Logeion MCP Server", version |-> "1.0.0",
   tools_available |-> <<"get_word", "get_server_info", "explore_database">>,
   database_status |-> db_status, spacy_status |-> spacy_status]

\* A status computed once and repeated by later calls.
GetServerInfoCached ==
  LET db_status == IF last.kind = "get_server_info" THEN last.result.database_status
                   ELSE IF ConnectOk THEN "connected" ELSE "error: " \o ConnectErrorMsg
      spacy_status == IF nlp.loaded THEN "loaded (la_core_web_lg)" ELSE "not available"
      ops == IF ConnectOk THEN <<Op("connect", ""), Op("close", "")>>
             ELSE <<Op("connect_failed", "")>>
  IN [escaped |-> FALSE, result |-> ServerInfo(db_status, spacy_status), ops |-> ops]

GetServerInfo ==
  LET db_status == IF ConnectOk THEN "connected" ELSE "error: " \o ConnectErrorMsg
      spacy_status == IF nlp.loaded THEN "loaded (la_core_web_lg)" ELSE "not available"
      ops == IF ConnectOk THEN <<Op("connect", ""), Op("close", "")>>
             ELSE <<Op("connect_failed", "")>>
  IN [escaped |-> FALSE, result |-> ServerInfo(db_status, spacy_status), ops |-> ops]

\* ------------------------------------------------------- explore_database
Min(a, b) == IF a < b THEN a ELSE b
EntriesColumns == <<"id", "head">>

\* cursor.execute(f"PRAGMA table_info({table_name})"): no row for an unknown table
TableInfo(table_name) == IF table_name \in schema THEN EntriesColumns ELSE << >>

\* A sample query that, like the PRAGMA, answers an unknown table with no row.
SelectLimitNoRaise(table_name, limit) ==
  [raised |-> FALSE, msg |-> "",
   rows |-> IF table_name \notin schema THEN << >>
            ELSE IF limit < 0 THEN table ELSE SubSeq(table, 1, Min(limit, Len(table)))]

\* cursor.execute(f"SELECT * FROM {table_name} LIMIT ?", (limit,)): SQLite reads a
\* negative LIMIT as no limit
SelectLimit(table_name, limit) ==
  IF table_name \notin schema
    THEN [raised |-> TRUE, msg |-> NoSuchTableMsg(table_name), rows |-> << >>]
    ELSE [raised |-> FALSE, msg |-> "",
          rows |-> IF limit < 0 THEN table ELSE SubSeq(table, 1, Min(limit, Len(table)))]

ExploreError(table_name, msg) ==
  [success |-> FALSE, table |-> table_name, error |-> Some(msg), schema |-> None,
   column_names |-> None, sample_data |-> None, total_rows |-> None]

ExploreDatabase(table_name, limit) ==
  IF ~ConnectOk
    THEN [escaped |-> FALSE, result |-> ExploreError(table_name, ConnectErrorMsg),
          ops |-> <<Op("connect_failed", "")>>]
    ELSE LET info == TableInfo(table_name)
             sel == SelectLimit(table_name, limit)
             ops == <<Op("connect", ""), Op("pragma", table_name),
                      Op("select", table_name), Op("close", "")>>
         IN IF sel.raised
              THEN [escaped |-> FALSE, result |-> ExploreError(table_name, sel.msg),
                    ops |-> ops]
              ELSE [escaped |-> FALSE,
                    result |-> [success |-> TRUE, table |-> table_name, error |-> None,
                                schema |-> Some(info), column_names |-> Some(EntriesColumns),
                                sample_data |-> Some(sel.rows),
                                total_rows |-> Some(Len(sel.rows))],
                    ops |-> ops]

\* ---------------------------------------------------------------- actions
Init ==
  /\ dbStatus \in DbStatuses
  /\ \/ schema = {"Entries"} /\ table \in Tables
     \/ schema = {} /\ table = << >>
  /\ \/ nlp = [loaded |-> FALSE, docs |-> NoDocs]
     \/ \E d \in [Inputs -> DocOutcomes] : nlp = [loaded |-> TRUE, docs |-> d]
  /\ last = [kind |-> "init"]
  /\ first = None

\* What the call before this one was: its tool and, for get_word, its method.
PreviousCall ==
  IF last.kind = "get_word" THEN "get_word:" \o last.result.method ELSE last.kind

GetWordCall ==
  \E word \in Inputs :
    LET out == GetWord(word)
        call == [kind |-> "get_word", word |-> word, db |-> dbStatus,
                 escaped |-> out.escaped, result |-> out.result, ops |-> out.ops]
    IN /\ last' = [kind |-> "get_word", word |-> word, db |-> dbStatus,
                   escaped |-> out.escaped, result |-> out.result, ops |-> out.ops,
                   repeat |-> first # None, after |-> PreviousCall]
       /\ first' = IF first = None THEN Some(call) ELSE first
       /\ UNCHANGED <<dbStatus, schema, table, nlp>>

\* The database_status the call before this one reported, if it was get_server_info.
PreviousStatus ==
  IF last.kind = "get_server_info" THEN last.result.database_status ELSE ""

GetServerInfoCall ==
  LET out == GetServerInfo
  IN /\ last' = [kind |-> "get_server_info", db |-> dbStatus, escaped |-> out.escaped,
                 result |-> out.result, ops |-> out.ops, after |-> PreviousStatus]
     /\ UNCHANGED <<dbStatus, schema, table, nlp, first>>

ExploreDatabaseCall ==
  \E table_name \in TableNames, limit \in Limits :
    LET out == ExploreDatabase(table_name, limit)
    IN /\ last' = [kind |-> "explore_database", table_name |-> table_name,
                   limit |-> limit, db |-> dbStatus, escaped |-> out.escaped,
                   result |-> out.result, ops |-> out.ops]
       /\ UNCHANGED <<dbStatus, schema, table, nlp, first>>

SetDatabasePath ==
  \E s \in DbStatuses :
    /\ s # dbStatus
    /\ dbStatus' = s
    /\ UNCHANGED <<schema, table, nlp, last, first>>

Next ==
  \/ GetWordCall
  \/ GetServerInfoCall
  \/ ExploreDatabaseCall
  \/ SetDatabasePath

Spec == Init /\ [][Next]_vars

\* ------------------------------------------------- vocabulary of the claims
IsGetWord == last.kind = "get_word"
IsExplore == last.kind = "explore_database"
\* The store could be opened and queried during the latest call.
StoreReadable == last.db = "ok" /\ "Entries" \in schema
HeadPresent(h) == \E i \in DOMAIN table : table[i].head = h
\* rs is exactly the rows of Entries whose head is h, in rowid order.
IsRowsWithHead(rs, h) ==
  /\ \A i \in DOMAIN rs : rs[i].head = h /\ \E j \in DOMAIN table : table[j] = rs[i]
  /\ \A i, j \in DOMAIN rs : i < j => rs[i].id < rs[j].id
  /\ Len(rs) = Cardinality({j \in DOMAIN table : table[j].head = h})
\* The resolver is loaded and yields a first token for w without raising.
HasLemma(w) == nlp.loaded /\ ~nlp.docs[w].raises /\ nlp.docs[w].tokens # << >>
LemmaOf(w) == nlp.docs[w].tokens[1]
OpsNamed(name) == {i \in DOMAIN last.ops : last.ops[i].op = name}

C2_Lemmatized ==
  (/\ IsGetWord /\ StoreReadable /\ ~HeadPresent(last.word)
   /\ HasLemma(last.word) /\ HeadPresent(LemmaOf(last.word))) =>
    /\ last.result.success
    /\ last.result.method = "lemmatized"
    /\ last.result.word = last.word
    /\ last.result.lemma = Some(LemmaOf(last.word))
    /\ last.result.results # None
    /\ last.result.results[1] # << >>
    /\ IsRowsWithHead(last.result.results[1], LemmaOf(last.word))

C2_Witness ==
  /\ IsGetWord /\ StoreReadable /\ ~HeadPresent(last.word)
  /\ HasLemma(last.word) /\ HeadPresent(LemmaOf(last.word))
  /\ LemmaOf(last.word) # last.word
  /\ last.result.method = "lemmatized"

\* C3: a word absent from the head column whose lemma is absent too, or for
\* which the resolver is not loaded or yields no token, gets method none,
\* success false, no results and an error message; and an unloaded resolver
\* never gives method error on a readable store.
NoLemmaHit(w) ==
  \/ ~nlp.loaded
  \/ ~nlp.docs[w].raises /\ nlp.docs[w].tokens = << >>
  \/ ~nlp.docs[w].raises /\ nlp.docs[w].tokens # << >> /\ ~HeadPresent(LemmaOf(w))

C3_NotFound ==
  /\ (IsGetWord /\ StoreReadable /\ ~HeadPresent(last.word) /\ NoLemmaHit(last.word)) =>
       /\ last.result.method = "none"
       /\ ~last.result.success
       /\ last.result.results = None
       /\ last.result.error # None
  /\ (IsGetWord /\ StoreReadable /\ ~nlp.loaded) => last.result.method # "error"

C3_Witness ==
  /\ IsGetWord /\ StoreReadable /\ ~HeadPresent(last.word) /\ ~nlp.loaded
  /\ table # << >>
  /\ last.result.method = "none"

\* C4: get_word never lets an exception out: when connecting, the first query
\* or the resolver fails, the call returns method error, success false,
\* word = the input and the exception's message as error.
FailureMsg(w) ==
  IF last.db # "ok" THEN Some(ConnectErrorMsg)
  ELSE IF "Entries" \notin schema THEN Some(NoSuchTableMsg("Entries"))
  ELSE IF ~HeadPresent(w) /\ nlp.loaded /\ nlp.docs[w].raises THEN Some(NlpErrorMsg)
  ELSE None

C4_NeverRaises ==
  IsGetWord =>
    /\ ~last.escaped
    /\ FailureMsg(last.word) # None =>
         /\ last.result.method = "error"
         /\ ~last.result.success
         /\ last.result.word = last.word
         /\ last.result.error = FailureMsg(last.word)

C4_Witness ==
  /\ IsGetWord /\ last.db = "ok" /\ "Entries" \in schema
  /\ FailureMsg(last.word) = Some(NlpErrorMsg)
  /\ last.result.method = "error"

\* C5: in every get_word result, after any calls, success is true exactly when
\* the method is exact_match or lemmatized.
C5_SuccessIffHit ==
  IsGetWord =>
    (last.result.success <=> last.result.method \in {"exact_match", "lemmatized"})

C5_Witness ==
  /\ IsGetWord /\ last.repeat /\ last.after = "get_word:error"
  /\ last.result.success /\ last.result.method = "lemmatized"

\* C6 as stated: the error field is present exactly when the method is error.
C6_ErrorIffErrorMethod ==
  IsGetWord => (last.result.error # None <=> last.result.method = "error")

\* C6 amended: the error field is present exactly when the method is none or
\* error; exact_match and lemmatized results carry no error, and a not-found
\* result carries the not-found message for the word.
C6_ErrorIffNoneOrError ==
  IsGetWord =>
    /\ last.result.error # None <=> last.result.method \in {"none", "error"}
    /\ last.result.method = "none" => last.result.error = Some(NotFoundMsg(last.word))

C6_Witness ==
  /\ IsGetWord /\ last.result.method = "none"
  /\ last.result.error = Some("No results found for 'amo' or its lemma")

\* C7: the lemma field is present exactly when the method is lemmatized, also
\* when a lemma was computed and its lookup missed; a lemmatized result carries
\* the key of the second query.
C7_LemmaIffLemmatized ==
  IsGetWord =>
    /\ last.result.lemma # None <=> last.result.method = "lemmatized"
    /\ last.result.method = "lemmatized" =>
         /\ Cardinality(OpsNamed("execute")) = 2
         /\ \A i \in OpsNamed("execute") :
              i > 2 => last.result.lemma = Some(last.ops[i].arg)

C7_Witness ==
  /\ IsGetWord /\ StoreReadable /\ HasLemma(last.word)
  /\ Cardinality(OpsNamed("execute")) = 2
  /\ last.result.method = "none" /\ last.result.lemma = None

C9_Idempotent ==
  (/\ IsGetWord /\ last.repeat
   /\ first[1].word = last.word /\ first[1].db = last.db) =>
    last.result = first[1].result

C9_Witness ==
  /\ IsGetWord /\ last.repeat
  /\ first[1].word = last.word /\ first[1].db = last.db
  /\ last.after = "get_word:error"
  /\ last.result.method = "lemmatized"

\* C10 as stated: a successful explore_database call returns at most limit
\* sample rows, and reports a total_rows of at most limit, for every integer
\* limit.
C10_AtMostLimit ==
  (IsExplore /\ last.result.success) =>
    /\ Len(last.result.sample_data[1]) <= last.limit
    /\ last.result.total_rows[1] <= last.limit

\* C11: explore_database never lets an exception out: with an unknown table
\* name, or a store that cannot be opened, it returns success false, an error
\* message and the requested table name; success true comes only after both
\* the schema query and the sample query ran on an existing table.
C11_ExploreNeverRaises ==
  IsExplore =>
    /\ ~last.escaped
    /\ last.result.table = last.table_name
    /\ (last.db # "ok" \/ last.table_name \notin schema) =>
         /\ ~last.result.success
         /\ last.result.error # None
         /\ last.result.sample_data = None
    /\ last.db # "ok" => last.result.error = Some(ConnectErrorMsg)
    /\ (last.db = "ok" /\ last.table_name \notin schema) =>
         last.result.error = Some(NoSuchTableMsg(last.table_name))
    /\ last.result.success =>
         /\ last.db = "ok" /\ last.table_name \in schema
         /\ OpsNamed("pragma") # {} /\ OpsNamed("select") # {}
         /\ last.result.error = None

C11_Witness ==
  /\ IsExplore /\ last.db = "ok" /\ schema = {"Entries"}
  /\ last.table_name = "InvalidTable"
  /\ ~last.result.success
  /\ last.result.error = Some("no such table: InvalidTable")
  /\ last.result.table = "InvalidTable"

\* C12: get_server_info never lets an exception out, and its database_status
\* is "connected" exactly when the store could be opened during that call,
\* "error: <message>" otherwise, whatever an earlier call reported; the model
\* status is that of the resolver loaded at start.
IsServerInfo == last.kind = "get_server_info"

C12_StatusFresh ==
  IsServerInfo =>
    /\ ~last.escaped
    /\ last.result.database_status = "connected" <=> last.db = "ok"
    /\ last.db # "ok" => last.result.database_status = "error: " \o ConnectErrorMsg
    /\ last.result.spacy_status = "not available" <=> ~nlp.loaded
    /\ last.result.tools_available = <<"get_word", "get_server_info", "explore_database">>

C12_Witness ==
  /\ IsServerInfo /\ last.db = "ok"
  /\ last.after = "error: unable to open database file"
  /\ last.result.database_status = "connected"

\* C13: every connection a tool call opens is closed before the call returns,
\* on each path: at every point of a call at most one connection is open, and
\* at its end none is.
OpenAfter(n) ==
  Cardinality({i \in 1 .. n : last.ops[i].op = "connect"})
    - Cardinality({i \in 1 .. n : last.ops[i].op = "close"})

C13_ConnectionsReleased ==
  last.kind # "init" =>
    /\ \A n \in 0 .. Len(last.ops) : OpenAfter(n) \in {0, 1}
    /\ OpenAfter(Len(last.ops)) = 0
    /\ \A i \in DOMAIN last.ops :
         last.ops[i].op \in {"execute", "nlp", "pragma", "select"} => OpenAfter(i) = 1

C13_Witness ==
  /\ IsGetWord /\ last.result.error = Some(NlpErrorMsg)
  /\ OpsNamed("connect") = {1} /\ OpsNamed("nlp") = {3} /\ OpsNamed("close") = {4}
  /\ OpenAfter(3) = 1 /\ OpenAfter(4) = 0

\* The exact query of the latest get_word call ran and returned no row, and
\* the loaded resolver was then called on the word.
ResolverReached == IsGetWord /\ StoreReadable /\ ~HeadPresent(last.word) /\ nlp.loaded

\* C14 as stated: when the exact query misses and the model fails on the word,
\* the lookup ends with the not-found result (method none), not method error.
C14_ModelFailureIsNotFound ==
  (ResolverReached /\ nlp.docs[last.word].raises) =>
    /\ last.result.method = "none"
    /\ last.result.method # "error"

\* C14 amended: when the exact query misses and the model fails on the word,
\* the failure is not absorbed: the connection is closed without a second
\* query and the lookup ends with method error, success false and the model's
\* message as error; the not-found result is never given for it.
C14_ModelFailureIsError ==
  (ResolverReached /\ nlp.docs[last.word].raises) =>
    /\ ~last.escaped
    /\ last.result.method = "error"
    /\ ~last.result.success
    /\ last.result.error = Some(NlpErrorMsg)
    /\ last.result.error # Some(NotFoundMsg(last.word))
    /\ last.ops = <<Op("connect", ""), Op("execute", last.word),
                    Op("nlp", last.word), Op("close", "")>>

C14_Witness ==
  /\ ResolverReached /\ nlp.docs[last.word].raises
  /\ table # << >>
  /\ last.result.method = "error"
  /\ last.result.error = Some("model failure")

\* C15 as stated: when the first token's lemma is the empty string, no query
\* is made with the empty key and no lemmatized result has an empty lemma,
\* even if a row's head is the empty string.
EmptyLemma(w) == HasLemma(w) /\ LemmaOf(w) = ""

C15_NoEmptyLemmaQuery ==
  (ResolverReached /\ EmptyLemma(last.word)) =>
    /\ \A i \in OpsNamed("execute") : last.ops[i].arg # ""
    /\ ~(last.result.method = "lemmatized" /\ last.result.lemma = Some(""))

\* C15 amended: the second query is made exactly when the resolver yields at
\* least one token, with the first token's lemma as key, the empty string
\* included: an empty lemma is looked up like any other, giving a lemmatized
\* result with lemma "" when a row's head is "" and the not-found result
\* otherwise.
C15_QueryIffToken ==
  IsGetWord =>
    /\ Cardinality(OpsNamed("execute")) = 2 <=> (ResolverReached /\ HasLemma(last.word))
    /\ (ResolverReached /\ HasLemma(last.word)) =>
         last.ops[4] = Op("execute", LemmaOf(last.word))
    /\ (ResolverReached /\ EmptyLemma(last.word)) =>
         /\ HeadPresent("") =>
              /\ last.result.method = "lemmatized"
              /\ last.result.lemma = Some("")
              /\ IsRowsWithHead(last.result.results[1], "")
         /\ ~HeadPresent("") => last.result.method = "none"

C15_Witness ==
  /\ ResolverReached /\ EmptyLemma(last.word) /\ HeadPresent("")
  /\ last.ops[4] = Op("execute", "")
  /\ last.result.method = "lemmatized" /\ last.result.lemma = Some("")
====
